---- MODULE Spec2Model ----
(***************************************************************************)
(* Model of the two crews of packages/agent-core/src/crews:                *)
(*   ContentCrew (content_crew.py) and VideoCrew (video_crew.py).          *)
(* A crew method builds Task objects, hands them to a sequential Crew and  *)
(* returns what kickoff() gives back.  The executor (the agent behind a    *)
(* task) is a black box: it returns some text or raises.                   *)
(***************************************************************************)
EXTENDS Integers, Sequences, FiniteSets, TLC

VARIABLES
    brief,      \* ContentCrew.brief, set by the constructor
    pc,         \* per call: "idle", "kickoff", "returned", "raised"
    op,         \* per call: the method that was called
    frame,      \* per call: the method's arguments and its local `specs`
    tasks,      \* per call: the Task objects, in the order given to Crew(tasks=...)
    idx,        \* per call: position of kickoff() in the task list
    returns,    \* per call: the texts the executor has returned, in order
    result      \* per call: the value returned to the caller, <<>> before that

vars == <<brief, pc, op, frame, tasks, idx, returns, result>>

(***************************************************************************)
(* Bounds and input sets                                                   *)
(***************************************************************************)
\* calls that may be in progress at once on the same crew objects
MaxRuns == 2

\* calls made when the inputs range over all of their values
MaxCalls == 1

Runs == 1..MaxRuns

Calls == 1..MaxCalls

\* Python's None, where a text value is expected
None == "None"

\* texts the executor may return
Val == {"H", "O"}

\* the executor's texts in the end-to-end scenario
ScenarioVal == {"H", "C", "O"}

Scripts == {"script"}

Structures == {"structure"}

\* the keys of PLATFORM_SPECS and identifiers that are not keys: two that
\* differ from a key only in case, and one that resembles none
Platforms ==
    {"tiktok", "instagram_reels", "youtube_shorts", "youtube", "instagram_feed",
     "TikTok", "YouTube", "linkedin"}

\* the platform of the interleaved runs: a key that is not the default
RunPlatforms == {"youtube"}

\* the brief of the end-to-end scenario
FullBrief ==
    [k \in {"product", "audience", "platform", "emotional_trigger"} |->
        CASE k = "product" -> "X"
          [] k = "audience" -> "Y"
          [] k = "platform" -> "tiktok"
          [] k = "emotional_trigger" -> "relief"]

Restrict(f, K) == [k \in K |-> f[k]]

\* every brief that has some of the four keys
Briefs == { Restrict(FullBrief, K) : K \in SUBSET DOMAIN FullBrief }

(***************************************************************************)
(* video_crew.py: the platform table and its lookup                        *)
(***************************************************************************)
\* max_duration is {n}, or {} for None
PLATFORM_SPECS ==
    [p \in {"tiktok", "instagram_reels", "youtube_shorts", "youtube", "instagram_feed"} |->
        CASE p = "tiktok" ->
                [width |-> 1080, height |-> 1920, fps |-> 30, max_duration |-> {180}]
          [] p = "instagram_reels" ->
                [width |-> 1080, height |-> 1920, fps |-> 30, max_duration |-> {90}]
          [] p = "youtube_shorts" ->
                [width |-> 1080, height |-> 1920, fps |-> 30, max_duration |-> {60}]
          [] p = "youtube" ->
                [width |-> 1920, height |-> 1080, fps |-> 30, max_duration |-> {}]
          [] p = "instagram_feed" ->
                [width |-> 1080, height |-> 1080, fps |-> 30, max_duration |-> {60}]]

\* dict.get(key, default)
Get(d, key, default) == IF key \in DOMAIN d THEN d[key] ELSE default

\* mutant: the fallback is another entry of the table
ResolveSpecs_OtherDefault(platform) ==
    Get(PLATFORM_SPECS, platform, PLATFORM_SPECS["youtube"])

\* self.PLATFORM_SPECS.get(platform, self.PLATFORM_SPECS["tiktok"])
ResolveSpecs(platform) == Get(PLATFORM_SPECS, platform, PLATFORM_SPECS["tiktok"])

(***************************************************************************)
(* Task objects                                                            *)
(***************************************************************************)
\* mutant: the instruction also carries whether the crew has been used before
Description_Stamped(template, params, specs) ==
    [template |-> template,
     params |-> Append(params, IF \A q \in Runs : pc[q] = "idle" THEN "first" ELSE "later"),
     specs |-> specs]

\* an f-string: the template and the values substituted into it
Description(template, params, specs) ==
    [template |-> template, params |-> params, specs |-> specs]

\* Task(description=..., agent=self.agents[agent], context=[...])
Task(name, description, agent, context) ==
    [name |-> name, description |-> description, agent |-> agent,
     context |-> context, status |-> "pending", input |-> <<>>,
     output |-> None, executions |-> 0]

\* the output attribute of the Task object a local name refers to; a Task
\* object always has the attribute (hasattr holds), None until the task has run
OutputOf(ts, name) ==
    LET i == CHOOSE j \in 1..Len(ts) : ts[j].name = name
    IN  ts[i].output

NoFrame == [script |-> None, platform |-> None, structure |-> None, specs |-> <<>>]

(***************************************************************************)
(* content_crew.py: run_full_content_pipeline                              *)
(***************************************************************************)
hook_task(b) ==
    Task("hook_task",
         Description("Create 5 hook variations for",
                     << Get(b, "product", "Unknown product"),
                        Get(b, "audience", "General audience"),
                        Get(b, "platform", "TikTok"),
                        Get(b, "emotional_trigger", "Curiosity") >>, {}),
         0, <<>>)

copy_task ==
    Task("copy_task",
         Description("Take the best performing hook", <<>>, {}),
         1, <<"hook_task">>)

optimize_task(b) ==
    Task("optimize_task",
         Description("Optimize the ad copy for", << Get(b, "platform", "TikTok") >>, {}),
         2, <<"copy_task">>)

\* mutant: the copy task is listed before the hook task it depends on
ContentTasks_Reordered(b) == << copy_task, hook_task(b), optimize_task(b) >>

\* Crew(tasks=[hook_task, copy_task, optimize_task], process=Process.sequential)
ContentTasks(b) == << hook_task(b), copy_task, optimize_task(b) >>

\* mutant: the copy key is filled from the hook task
ContentResult_Swapped(b, ts, kickoffResult) ==
    [hooks |-> OutputOf(ts, "hook_task"),
     copy |-> OutputOf(ts, "hook_task"),
     optimized |-> kickoffResult,
     platform |-> Get(b, "platform", None),
     brief |-> b]

\* mutant: the returned platform falls back to the instructions' default
ContentResult_DefaultPlatform(b, ts, kickoffResult) ==
    [hooks |-> OutputOf(ts, "hook_task"),
     copy |-> OutputOf(ts, "copy_task"),
     optimized |-> kickoffResult,
     platform |-> Get(b, "platform", "TikTok"),
     brief |-> b]

ContentResult(b, ts, kickoffResult) ==
    [hooks |-> OutputOf(ts, "hook_task"),
     copy |-> OutputOf(ts, "copy_task"),
     optimized |-> kickoffResult,
     platform |-> Get(b, "platform", None),
     brief |-> b]

Call_run_full_content_pipeline(r) ==
    /\ pc[r] = "idle"
    /\ pc' = [pc EXCEPT ![r] = "kickoff"]
    /\ op' = [op EXCEPT ![r] = "run_full_content_pipeline"]
    /\ tasks' = [tasks EXCEPT ![r] = ContentTasks(brief)]
    /\ idx' = [idx EXCEPT ![r] = 1]
    /\ UNCHANGED <<brief, frame, returns, result>>

(***************************************************************************)
(* video_crew.py: generate_video_structure, generate_remotion_code,        *)
(* run_full_video_pipeline                                                 *)
(***************************************************************************)
\* generate_video_structure: one task, written with all four fields of specs
StructureTasks(script, platform, specs) ==
    << Task("task",
            Description("Design video structure for this script",
                        <<script, platform>>, {specs}),
            0, <<>>) >>

\* generate_remotion_code: one task, written with width, height and fps
RemotionTasks(structure, script, specs) ==
    << Task("task",
            Description("Generate complete Remotion composition code",
                        <<structure, script>>,
                        {[width |-> specs.width, height |-> specs.height,
                          fps |-> specs.fps]}),
            1, <<>>) >>

structure_task(script, platform, specs) ==
    Task("structure_task",
         Description("Design video structure for", <<script, platform>>, {specs}),
         0, <<>>)

code_task ==
    Task("code_task",
         Description("Generate Remotion composition code based on the structure", <<>>, {}),
         1, <<"structure_task">>)

caption_task ==
    Task("caption_task",
         Description("Add TikTok-style captions to the video", <<>>, {}),
         2, <<"code_task">>)

\* Crew(tasks=[structure_task, code_task, caption_task], process=Process.sequential)
VideoTasks(script, platform, specs) ==
    << structure_task(script, platform, specs), code_task, caption_task >>

\* mutant: the result names the platform whose entry was used
VideoResult_Normalised(platform, specs, ts, kickoffResult) ==
    [structure |-> OutputOf(ts, "structure_task"),
     remotion_code |-> OutputOf(ts, "code_task"),
     final_code |-> kickoffResult,
     platform |-> IF platform \in DOMAIN PLATFORM_SPECS THEN platform ELSE "tiktok",
     specs |-> specs]

VideoResult(platform, specs, ts, kickoffResult) ==
    [structure |-> OutputOf(ts, "structure_task"),
     remotion_code |-> OutputOf(ts, "code_task"),
     final_code |-> kickoffResult,
     platform |-> platform,
     specs |-> specs]

Call_generate_video_structure(r, script, platform) ==
    /\ pc[r] = "idle"
    /\ LET specs == ResolveSpecs(platform)
       IN  /\ frame' = [frame EXCEPT ![r] =
                          [script |-> script, platform |-> platform,
                           structure |-> None, specs |-> <<specs>>]]
           /\ tasks' = [tasks EXCEPT ![r] = StructureTasks(script, platform, specs)]
    /\ pc' = [pc EXCEPT ![r] = "kickoff"]
    /\ op' = [op EXCEPT ![r] = "generate_video_structure"]
    /\ idx' = [idx EXCEPT ![r] = 1]
    /\ UNCHANGED <<brief, returns, result>>

Call_generate_remotion_code(r, structure, script, platform) ==
    /\ pc[r] = "idle"
    /\ LET specs == ResolveSpecs(platform)
       IN  /\ frame' = [frame EXCEPT ![r] =
                          [script |-> script, platform |-> platform,
                           structure |-> structure, specs |-> <<specs>>]]
           /\ tasks' = [tasks EXCEPT ![r] = RemotionTasks(structure, script, specs)]
    /\ pc' = [pc EXCEPT ![r] = "kickoff"]
    /\ op' = [op EXCEPT ![r] = "generate_remotion_code"]
    /\ idx' = [idx EXCEPT ![r] = 1]
    /\ UNCHANGED <<brief, returns, result>>

Call_run_full_video_pipeline(r, script, platform) ==
    /\ pc[r] = "idle"
    /\ LET specs == ResolveSpecs(platform)
       IN  /\ frame' = [frame EXCEPT ![r] =
                          [script |-> script, platform |-> platform,
                           structure |-> None, specs |-> <<specs>>]]
           /\ tasks' = [tasks EXCEPT ![r] = VideoTasks(script, platform, specs)]
    /\ pc' = [pc EXCEPT ![r] = "kickoff"]
    /\ op' = [op EXCEPT ![r] = "run_full_video_pipeline"]
    /\ idx' = [idx EXCEPT ![r] = 1]
    /\ UNCHANGED <<brief, returns, result>>

(***************************************************************************)
(* Crew.kickoff() with Process.sequential                                  *)
(***************************************************************************)
\* the outputs of the context tasks, as handed to the executor
ContextOf(ts, t) == [k \in 1..Len(t.context) |-> OutputOf(ts, t.context[k])]

\* mutant: any task that has not run may be handed to the executor
Runnable_Any(r) ==
    { i \in 1..Len(tasks[r]) : tasks[r][i].status = "pending" }

\* the tasks kickoff() may hand to the executor now: the one it is at
Runnable(r) ==
    { i \in 1..Len(tasks[r]) : i = idx[r] /\ tasks[r][i].status = "pending" }

\* mutant: kickoff() steps over a task
NextIndex_Skip(i) == i + 2

\* kickoff() moves on to the next task of the list
NextIndex(i) == i + 1

\* mutant: the output is written to every task up to the i-th
SetOutput_Overwrite(r, i, v) ==
    [tasks EXCEPT ![r] =
        [j \in 1..Len(tasks[r]) |->
            IF j < i THEN [tasks[r][j] EXCEPT !.output = v]
            ELSE IF j = i THEN [tasks[r][j] EXCEPT !.output = v, !.status = "done"]
            ELSE tasks[r][j]]]

\* mutant: the Task objects are shared by the calls on a crew
SetOutput_Shared(r, i, v) ==
    [q \in Runs |->
        IF q = r THEN [tasks[q] EXCEPT ![i].output = v, ![i].status = "done"]
        ELSE IF i <= Len(tasks[q]) THEN [tasks[q] EXCEPT ![i].output = v]
        ELSE tasks[q]]

\* task.output = v, for the i-th task of call r
SetOutput(r, i, v) ==
    [tasks EXCEPT ![r][i].output = v, ![r][i].status = "done"]

\* the executor is invoked for the task kickoff() is at
StartTask(r) ==
    /\ pc[r] = "kickoff"
    /\ \E i \in Runnable(r) :
        LET t == tasks[r][i]
        IN  tasks' = [tasks EXCEPT ![r][i] =
                        [t EXCEPT !.status = "running",
                                  !.input = ContextOf(tasks[r], t),
                                  !.executions = t.executions + 1]]
    /\ UNCHANGED <<brief, pc, op, frame, idx, returns, result>>

\* the executor returns v: the output is recorded and kickoff() moves on
FinishTask(r, v) ==
    /\ pc[r] = "kickoff"
    /\ idx[r] <= Len(tasks[r])
    /\ tasks[r][idx[r]].status = "running"
    /\ tasks' = SetOutput(r, idx[r], v)
    /\ idx' = [idx EXCEPT ![r] = NextIndex(idx[r])]
    /\ returns' = [returns EXCEPT ![r] = Append(@, v)]
    /\ UNCHANGED <<brief, pc, op, frame, result>>

\* mutant: the exception is caught and kickoff() goes on with the next task
FailTask_Swallow(r) ==
    /\ pc[r] = "kickoff"
    /\ idx[r] <= Len(tasks[r])
    /\ tasks[r][idx[r]].status = "running"
    /\ tasks' = [tasks EXCEPT ![r][idx[r]].status = "failed"]
    /\ idx' = [idx EXCEPT ![r] = idx[r] + 1]
    /\ UNCHANGED <<brief, pc, op, frame, returns, result>>

\* the executor raises: nothing catches it, the call ends with the exception
FailTask(r) ==
    /\ pc[r] = "kickoff"
    /\ idx[r] <= Len(tasks[r])
    /\ tasks[r][idx[r]].status = "running"
    /\ tasks' = [tasks EXCEPT ![r][idx[r]].status = "failed"]
    /\ pc' = [pc EXCEPT ![r] = "raised"]
    /\ UNCHANGED <<brief, op, frame, idx, returns, result>>

\* mutant: kickoff() returns the output of the first task
KickoffResult_First(ts) == ts[1].output

\* what kickoff() returns: the output of the last task
KickoffResult(ts) == ts[Len(ts)].output

\* the value the called method returns once kickoff() has returned
ReturnValue(r) ==
    LET k == KickoffResult(tasks[r])
    IN  CASE op[r] = "run_full_content_pipeline" ->
                ContentResult(brief, tasks[r], k)
          [] op[r] = "run_full_video_pipeline" ->
                VideoResult(frame[r].platform, frame[r].specs[1], tasks[r], k)
          [] OTHER -> k

\* kickoff() has returned; the method builds and returns its result
Return(r) ==
    /\ pc[r] = "kickoff"
    /\ idx[r] > Len(tasks[r])
    /\ result' = [result EXCEPT ![r] = << ReturnValue(r) >>]
    /\ pc' = [pc EXCEPT ![r] = "returned"]
    /\ UNCHANGED <<brief, op, frame, tasks, idx, returns>>

(***************************************************************************)
(* Specifications                                                          *)
(***************************************************************************)
NoCalls ==
    /\ pc = [r \in Runs |-> "idle"]
    /\ op = [r \in Runs |-> "none"]
    /\ frame = [r \in Runs |-> NoFrame]
    /\ tasks = [r \in Runs |-> <<>>]
    /\ idx = [r \in Runs |-> 0]
    /\ returns = [r \in Runs |-> <<>>]
    /\ result = [r \in Runs |-> <<>>]

\* Interleaved pipeline runs on one ContentCrew and one VideoCrew
Init ==
    /\ brief = FullBrief
    /\ NoCalls

Next ==
    \/ \E r \in Runs : Call_run_full_content_pipeline(r)
    \/ \E r \in Runs, s \in Scripts, p \in RunPlatforms :
            Call_run_full_video_pipeline(r, s, p)
    \/ \E r \in Runs : StartTask(r)
    \/ \E r \in Runs, v \in Val : FinishTask(r, v)
    \/ \E r \in Runs : FailTask(r)
    \/ \E r \in Runs : Return(r)

Spec == Init /\ [][Next]_vars

\* The three video operations, for every platform identifier
InitVideo ==
    /\ brief = FullBrief
    /\ NoCalls

NextVideo ==
    \/ \E r \in Calls, s \in Scripts, p \in Platforms :
            Call_generate_video_structure(r, s, p)
    \/ \E r \in Calls, st \in Structures, s \in Scripts, p \in Platforms :
            Call_generate_remotion_code(r, st, s, p)
    \/ \E r \in Calls, s \in Scripts, p \in Platforms :
            Call_run_full_video_pipeline(r, s, p)
    \/ \E r \in Calls : StartTask(r)
    \/ \E r \in Calls, v \in Val : FinishTask(r, v)
    \/ \E r \in Calls : FailTask(r)
    \/ \E r \in Calls : Return(r)

SpecVideo == InitVideo /\ [][NextVideo]_vars

\* The content pipeline, for every brief and the scenario's executor texts
InitContent ==
    /\ brief \in Briefs
    /\ NoCalls

NextContent ==
    \/ \E r \in Calls : Call_run_full_content_pipeline(r)
    \/ \E r \in Calls : StartTask(r)
    \/ \E r \in Calls, v \in ScenarioVal : FinishTask(r, v)
    \/ \E r \in Calls : FailTask(r)
    \/ \E r \in Calls : Return(r)

SpecContent == InitContent /\ [][NextContent]_vars

(***************************************************************************)
(* Properties                                                              *)
(***************************************************************************)
Pipelines == {"run_full_content_pipeline", "run_full_video_pipeline"}

VideoOps ==
    {"generate_video_structure", "generate_remotion_code", "run_full_video_pipeline"}

\* the executor has been invoked for the task
Started(t) == t.status # "pending"

\* the task's output has been recorded
Recorded(t) == t.output # None

\* the run context of a call: the recorded outputs, by task name
RunContext(r) ==
    { <<tasks[r][i].name, tasks[r][i].output>> :
        i \in { j \in 1..Len(tasks[r]) : Recorded(tasks[r][j]) } }

\* the steps of an operation
StepNames(o) ==
    CASE o = "run_full_content_pipeline" -> {"hook_task", "copy_task", "optimize_task"}
      [] o = "run_full_video_pipeline" -> {"structure_task", "code_task", "caption_task"}
      [] o \in {"generate_video_structure", "generate_remotion_code"} -> {"task"}
      [] OTHER -> {}

\* C1: in every run of a pipeline, a step the executor has been invoked for
\* has the output of every step it declares as context recorded, and the
\* executor was handed those outputs, never a missing one.
C1_DependenciesFirst ==
    \A r \in Runs : \A i \in 1..Len(tasks[r]) :
        LET t == tasks[r][i]
        IN  Started(t) =>
                /\ Len(t.input) = Len(t.context)
                /\ \A k \in 1..Len(t.context) :
                        /\ OutputOf(tasks[r], t.context[k]) # None
                        /\ t.input[k] # None

\* C1 witness: the optimize step of a content run is executing, with the
\* copy step as its declared dependency.
C1_Witness ==
    \E r \in Runs :
        /\ op[r] = "run_full_content_pipeline"
        /\ tasks[r][3].name = "optimize_task"
        /\ tasks[r][3].context = <<"copy_task">>
        /\ tasks[r][3].status = "running"

\* C2: no step is executed twice, and when a call returns every step has
\* been executed exactly once and the run context holds exactly one entry
\* per step, under that step's name, and nothing else.
C2_ExactlyOncePerStep ==
    \A r \in Runs :
        /\ \A i \in 1..Len(tasks[r]) : tasks[r][i].executions <= 1
        /\ pc[r] = "returned" =>
            /\ \A i \in 1..Len(tasks[r]) :
                    /\ tasks[r][i].executions = 1
                    /\ tasks[r][i].status = "done"
            /\ Len(returns[r]) = Len(tasks[r])
            /\ { c[1] : c \in RunContext(r) } = StepNames(op[r])
            /\ Cardinality(RunContext(r)) = Cardinality(StepNames(op[r]))
            /\ Len(tasks[r]) = Cardinality(StepNames(op[r]))

\* C2 witness: a video pipeline call has returned.
C2_Witness ==
    \E r \in Runs :
        /\ op[r] = "run_full_video_pipeline"
        /\ pc[r] = "returned"
        /\ Cardinality(RunContext(r)) = 3

C4_FailurePropagates ==
    \A r \in Runs :
        /\ \A k \in 1..Len(tasks[r]) :
            tasks[r][k].status = "failed" =>
                /\ pc[r] = "raised"
                /\ result[r] = <<>>
                /\ tasks[r][k].executions = 1
                /\ ~Recorded(tasks[r][k])
                /\ \A j \in (k + 1)..Len(tasks[r]) :
                        /\ tasks[r][j].status = "pending"
                        /\ tasks[r][j].executions = 0
                        /\ ~Recorded(tasks[r][j])
        /\ pc[r] = "raised" =>
                \E k \in 1..Len(tasks[r]) : tasks[r][k].status = "failed"

\* C4 witness: the executor has failed on the second step of a 3-step
\* pipeline whose first step has completed.
C4_Witness ==
    \E r \in Runs :
        /\ Len(tasks[r]) = 3
        /\ tasks[r][1].status = "done"
        /\ tasks[r][2].status = "failed"
        /\ pc[r] = "raised"

\* C5: for a platform identifier that is not a key of PLATFORM_SPECS, each
\* of the three video operations resolves the specs to the "tiktok" entry
\* (1080x1920, 30 fps, max duration 180), writes its instruction with them,
\* and goes on to execute its steps: the call ends with an exception only
\* when the executor fails.
C5_UnknownPlatformDefault ==
    \A r \in Runs :
        op[r] \in VideoOps /\ frame[r].platform \notin DOMAIN PLATFORM_SPECS =>
            /\ frame[r].specs =
                << [width |-> 1080, height |-> 1920, fps |-> 30, max_duration |-> {180}] >>
            /\ tasks[r][1].description.specs # {}
            /\ \A d \in tasks[r][1].description.specs :
                    d.width = 1080 /\ d.height = 1920 /\ d.fps = 30
            /\ op[r] # "generate_remotion_code" =>
                    \A d \in tasks[r][1].description.specs : d.max_duration = {180}
            /\ pc[r] \in {"kickoff", "returned", "raised"}
            /\ pc[r] = "raised" =>
                    \E k \in 1..Len(tasks[r]) : tasks[r][k].status = "failed"
            /\ pc[r] = "returned" /\ op[r] = "run_full_video_pipeline" =>
                    result[r][1].specs = PLATFORM_SPECS["tiktok"]

\* C5 witness: a video pipeline call for an identifier that is no key of
\* the table has returned.
C5_Witness ==
    \E r \in Runs :
        /\ op[r] = "run_full_video_pipeline"
        /\ frame[r].platform = "linkedin"
        /\ pc[r] = "returned"

\* C6: within a call the run context only grows and is write-once: a
\* recorded output is never removed and never changes, a call starts with
\* no output recorded, and a step that newly gets an output is the step the
\* executor was running for that call.
C6_WriteOnce ==
    [][\A r \in Runs :
        /\ \A i \in 1..Len(tasks[r]) :
            Recorded(tasks[r][i]) =>
                /\ i <= Len(tasks'[r])
                /\ tasks'[r][i].name = tasks[r][i].name
                /\ tasks'[r][i].output = tasks[r][i].output
        /\ \A i \in 1..Len(tasks'[r]) :
            Recorded(tasks'[r][i]) /\ (i > Len(tasks[r]) \/ ~Recorded(tasks[r][i])) =>
                /\ i <= Len(tasks[r])
                /\ i = idx[r]
                /\ tasks[r][i].status = "running"
      ]_vars

\* C6 witness: a call in which two outputs are recorded, one after the
\* other, and the third step is executing.
C6_Witness ==
    \E r \in Runs :
        /\ Len(tasks[r]) = 3
        /\ Recorded(tasks[r][1])
        /\ Recorded(tasks[r][2])
        /\ tasks[r][1].output # tasks[r][2].output
        /\ tasks[r][3].status = "running"

\* the position of a task name in the task list of a call
IndexOf(r, name) == CHOOSE j \in 1..Len(tasks[r]) : tasks[r][j].name = name

\* what a pipeline call returns when it runs alone with the given executor texts
AloneResult(r, texts) ==
    IF op[r] = "run_full_content_pipeline"
    THEN [hooks |-> texts[1], copy |-> texts[2], optimized |-> texts[3],
          platform |-> Get(brief, "platform", None), brief |-> brief]
    ELSE [structure |-> texts[1], remotion_code |-> texts[2], final_code |-> texts[3],
          platform |-> frame[r].platform,
          specs |-> Get(PLATFORM_SPECS, frame[r].platform, PLATFORM_SPECS["tiktok"])]

C8_StrictlySequential ==
    \A r \in Runs :
        \A j \in 1..Len(tasks[r]) :
            Started(tasks[r][j]) =>
                \A i \in 1..(j - 1) :
                    /\ tasks[r][i].status = "done"
                    /\ Recorded(tasks[r][i])

\* C8 witness: the second step of a video call is executing, the first is
\* done and the third has not started.
C8_Witness ==
    \E r \in Runs :
        /\ op[r] = "run_full_video_pipeline"
        /\ tasks[r][1].status = "done"
        /\ tasks[r][2].status = "running"
        /\ tasks[r][3].status = "pending"

ExactEntry(platform) ==
    IF platform \in {"tiktok", "instagram_reels", "youtube_shorts", "youtube", "instagram_feed"}
    THEN PLATFORM_SPECS[platform]
    ELSE PLATFORM_SPECS["tiktok"]

\* C12: the three video operations resolve a platform identifier the same
\* way, by exact match: a key of PLATFORM_SPECS gets its own entry, anything
\* else (a key in another case included) the tiktok entry, and the
\* instruction is written with the caller's identifier and the resolved
\* numbers.  run_full_video_pipeline returns the caller's identifier
\* unchanged in platform and the resolved entry in specs, so for an
\* identifier that is no key platform is that identifier and specs is the
\* tiktok entry.
C12_ExactPlatformLookup ==
    \A r \in Runs :
        op[r] \in VideoOps =>
            LET p == frame[r].platform
                e == ExactEntry(p)
                d == tasks[r][1].description
            IN  /\ frame[r].specs = << e >>
                /\ p \in DOMAIN PLATFORM_SPECS => frame[r].specs = << PLATFORM_SPECS[p] >>
                /\ op[r] = "generate_remotion_code" =>
                        d.specs = {[width |-> e.width, height |-> e.height, fps |-> e.fps]}
                /\ op[r] # "generate_remotion_code" =>
                        /\ d.specs = {e}
                        /\ d.params[2] = p
                /\ pc[r] = "returned" /\ op[r] = "run_full_video_pipeline" =>
                        /\ result[r][1].platform = p
                        /\ result[r][1].specs = e
                        /\ p \notin DOMAIN PLATFORM_SPECS =>
                                /\ result[r][1].platform # "tiktok"
                                /\ result[r][1].specs.width = 1080
                                /\ result[r][1].specs.height = 1920
                                /\ result[r][1].specs.max_duration = {180}

\* C12 witness: a video pipeline call for "YouTube", which differs from a
\* key only in case, has returned "YouTube" with the tiktok entry.
C12_Witness ==
    \E r \in Runs :
        /\ op[r] = "run_full_video_pipeline"
        /\ frame[r].platform = "YouTube"
        /\ pc[r] = "returned"
        /\ result[r][1].platform = "YouTube"
        /\ result[r][1].specs = PLATFORM_SPECS["tiktok"]
        /\ result[r][1].specs # PLATFORM_SPECS["youtube"]

\* the value an instruction shows for a brief key: the brief's own, or the default
Shown(key, default) == IF key \in DOMAIN brief THEN brief[key] ELSE default

\* what C13 says of a state
C13_State ==
    \A r \in Runs :
        op[r] = "run_full_content_pipeline" =>
            /\ pc[r] \in {"kickoff", "returned", "raised"}
            /\ tasks[r][1].description.params =
                    << Shown("product", "Unknown product"),
                       Shown("audience", "General audience"),
                       Shown("platform", "TikTok"),
                       Shown("emotional_trigger", "Curiosity") >>
            /\ tasks[r][2].description.params = <<>>
            /\ tasks[r][3].description.params = << Shown("platform", "TikTok") >>
            /\ pc[r] = "raised" =>
                    \E k \in 1..Len(tasks[r]) : tasks[r][k].status = "failed"
            /\ pc[r] = "returned" =>
                    /\ result[r][1].brief = brief
                    /\ DOMAIN result[r][1].brief = DOMAIN brief
                    /\ "platform" \in DOMAIN brief =>
                            result[r][1].platform = brief["platform"]
                    /\ "platform" \notin DOMAIN brief =>
                            /\ result[r][1].platform = None
                            /\ result[r][1].platform # "TikTok"

\* C13: whichever of the keys product, audience, platform and
\* emotional_trigger the brief lacks, run_full_content_pipeline does not
\* fail for it (a call ends with an exception only when the executor fails)
\* and writes its instructions with 'Unknown product', 'General audience',
\* 'TikTok' and 'Curiosity' for the absent keys; it never modifies the
\* brief, returns it unchanged in brief, and returns in platform the brief's
\* own platform value, None when the key is absent and not the 'TikTok' of
\* the instructions.
C13_BriefDefaults == [] C13_State /\ [][brief' = brief]_vars

\* C13 witness: a content call on a crew whose brief has none of the four
\* keys has returned, its instructions written with the four defaults.
C13_Witness ==
    \E r \in Runs :
        /\ DOMAIN brief = {}
        /\ op[r] = "run_full_content_pipeline"
        /\ pc[r] = "returned"
        /\ tasks[r][1].description.params =
                <<"Unknown product", "General audience", "TikTok", "Curiosity">>
        /\ result[r][1].platform = None

====
